---- MODULE Spec2Model ----
(***************************************************************************)
(* Model of the sample-cf-wasm Cloudflare workers: the hybrid WASM/JS      *)
(* worker (src/index.js), the pure-WASM worker (src/index-wasm.js), the    *)
(* static-import worker and the no-WASM test worker, with the numeric and  *)
(* string kernels they expose.                                             *)
(***************************************************************************)
EXTENDS Integers, Sequences, FiniteSets, TLC

(***************************************************************************)
(* JavaScript values.  TLC's integers are 32 bits wide and the kernels     *)
(* produce values up to 20! ~ 2^61, so BigInt and Number values are kept   *)
(* as arbitrary-precision integers: a natural is a little-endian sequence  *)
(* of decimal digits without a high zero digit (<<>> is 0), an integer is  *)
(* a record [neg, mag].                                                    *)
(***************************************************************************)

\* TLC evaluates operator arguments on demand; Strict(v, e) is e with v
\* evaluated first, which keeps a loop's accumulator from nesting
Strict(v, e) == IF v = v THEN e ELSE e

RECURSIVE BigTrim(_)
BigTrim(d) ==
  IF d = <<>> THEN <<>>
  ELSE IF d[Len(d)] = 0 THEN BigTrim(SubSeq(d, 1, Len(d) - 1))
  ELSE d

RECURSIVE BigOfNat(_)
BigOfNat(n) == IF n = 0 THEN <<>> ELSE <<n % 10>> \o BigOfNat(n \div 10)

RECURSIVE BigAddC(_, _, _)
BigAddC(a, b, c) ==
  IF a = <<>> /\ b = <<>> THEN (IF c = 0 THEN <<>> ELSE <<c>>)
  ELSE LET x == IF a = <<>> THEN 0 ELSE Head(a)
           y == IF b = <<>> THEN 0 ELSE Head(b)
           s == x + y + c
       IN  <<s % 10>> \o BigAddC(IF a = <<>> THEN <<>> ELSE Tail(a),
                                 IF b = <<>> THEN <<>> ELSE Tail(b),
                                 s \div 10)

BigAdd(a, b) == BigAddC(a, b, 0)

\* a - b for a >= b
RECURSIVE BigSubB(_, _, _)
BigSubB(a, b, c) ==
  IF a = <<>> THEN <<>>
  ELSE LET y == IF b = <<>> THEN 0 ELSE Head(b)
           s == Head(a) - y - c
       IN  <<(s + 10) % 10>> \o BigSubB(Tail(a),
                                        IF b = <<>> THEN <<>> ELSE Tail(b),
                                        IF s < 0 THEN 1 ELSE 0)

BigSub(a, b) == BigTrim(BigSubB(a, b, 0))

\* -1, 0, 1 as a < b, a = b, a > b
RECURSIVE BigCmpFrom(_, _, _)
BigCmpFrom(a, b, i) ==
  IF i = 0 THEN 0
  ELSE IF a[i] < b[i] THEN -1
  ELSE IF a[i] > b[i] THEN 1
  ELSE BigCmpFrom(a, b, i - 1)

BigCmp(a, b) ==
  IF Len(a) < Len(b) THEN -1
  ELSE IF Len(a) > Len(b) THEN 1
  ELSE BigCmpFrom(a, b, Len(a))

BigLess(a, b) == BigCmp(a, b) = -1
BigLeq(a, b) == BigCmp(a, b) # 1

\* a * k for a machine-sized k >= 0
RECURSIVE BigMulSmallC(_, _, _)
BigMulSmallC(a, k, c) ==
  IF a = <<>> THEN BigOfNat(c)
  ELSE LET s == Head(a) * k + c
       IN  <<s % 10>> \o BigMulSmallC(Tail(a), k, s \div 10)

BigMulSmall(a, k) == BigTrim(BigMulSmallC(a, k, 0))

BigShift10(a) == IF a = <<>> THEN <<>> ELSE <<0>> \o a

RECURSIVE BigMul(_, _)
BigMul(a, b) ==
  IF b = <<>> THEN <<>>
  ELSE BigAdd(BigMulSmall(a, Head(b)), BigShift10(BigMul(a, Tail(b))))

\* <<a div k, a mod k>> for a machine-sized k > 0: long division from the
\* high digit down
RECURSIVE BigDivModFrom(_, _, _, _, _)
BigDivModFrom(a, k, i, q, r) ==
  IF i = 0 THEN <<BigTrim(q), r>>
  ELSE LET cur == r * 10 + a[i]
       IN  BigDivModFrom(a, k, i - 1, <<cur \div k>> \o q, cur % k)

BigDivMod(a, k) == BigDivModFrom(a, k, Len(a), <<>>, 0)
BigDiv(a, k) == BigDivMod(a, k)[1]
BigMod(a, k) == BigDivMod(a, k)[2]

\* the machine-sized value of a small natural
RECURSIVE BigToNat(_)
BigToNat(a) == IF a = <<>> THEN 0 ELSE Head(a) + 10 * BigToNat(Tail(a))

\* the decimal digits of a natural, high digit first ("0" for zero)
RECURSIVE SeqReverse(_)
SeqReverse(s) == IF s = <<>> THEN <<>> ELSE SeqReverse(Tail(s)) \o <<Head(s)>>

BigDigits(a) == IF a = <<>> THEN <<0>> ELSE SeqReverse(a)

\* Integers
\* (nan marks the Number NaN; BigInt values never carry it)
ZMake(neg, mag) == [nan |-> FALSE, neg |-> neg /\ mag # <<>>, mag |-> mag]
NaN == [nan |-> TRUE, neg |-> FALSE, mag |-> <<>>]
ZOfBig(a) == ZMake(FALSE, a)
ZOfInt(n) ==
  IF n >= 0 THEN ZMake(FALSE, BigOfNat(n))
  ELSE ZMake(TRUE, BigAdd(BigOfNat(-(n + 1)), <<1>>))

ZNeg(z) == ZMake(~z.neg, z.mag)

ZAdd(x, y) ==
  IF x.neg = y.neg THEN ZMake(x.neg, BigAdd(x.mag, y.mag))
  ELSE IF BigLeq(y.mag, x.mag) THEN ZMake(x.neg, BigSub(x.mag, y.mag))
  ELSE ZMake(y.neg, BigSub(y.mag, x.mag))

ZMulSmall(x, k) == ZMake(x.neg, BigMulSmall(x.mag, k))

ZLess(x, y) ==
  IF x.neg /\ ~y.neg THEN TRUE
  ELSE IF ~x.neg /\ y.neg THEN FALSE
  ELSE IF x.neg THEN BigLess(y.mag, x.mag)
  ELSE BigLess(x.mag, y.mag)


(***************************************************************************)
(* Number semantics used by the workers: ToInt32 / ToUint32 (the operands  *)
(* of << and >>> and of an i32 export), IEEE-754 double rounding of an     *)
(* integer product, and Number.prototype.toString.                         *)
(***************************************************************************)
Two16 == BigOfNat(65536)
Two31 == BigMulSmall(Two16, 32768)
Two32 == BigMulSmall(Two16, 65536)
Two53 == BigMulSmall(BigMulSmall(Two32, 65536), 32)

BigMod2_32(a) ==
  LET d1 == BigDivMod(a, 65536)
      d2 == BigDivMod(d1[1], 65536)
  IN  BigAdd(BigMulSmall(BigOfNat(d2[2]), 65536), BigOfNat(d1[2]))

\* ToUint32: the value modulo 2^32, NaN to 0
ToUint32(v) ==
  IF v.nan THEN ZOfBig(<<>>)
  ELSE LET m == BigMod2_32(v.mag)
       IN  IF v.neg /\ m # <<>> THEN ZOfBig(BigSub(Two32, m)) ELSE ZOfBig(m)

\* ToInt32: ToUint32 read as a two's complement 32-bit value
ToInt32(v) ==
  LET u == ToUint32(v).mag
  IN  IF BigLeq(Two31, u) THEN ZMake(TRUE, BigSub(Two32, u)) ELSE ZOfBig(u)

\* x << k on Numbers: the 32-bit pattern of ToInt32(x) shifted left
ShiftLeft(x, k) == ToInt32(ZMulSmall(ToInt32(x), 2 ^ k))

\* the nearest double to a natural: 53 significant bits, ties to even
RECURSIVE DoubleSplit(_, _, _)
DoubleSplit(q, r, w) ==
  IF BigLess(q, Two53) THEN [q |-> q, r |-> r, w |-> w]
  ELSE LET d == BigDivMod(q, 2)
       IN  DoubleSplit(d[1], BigAdd(r, BigMulSmall(w, d[2])), BigMulSmall(w, 2))

DoubleRound(a) ==
  LET s == DoubleSplit(a, <<>>, <<1>>)
      twice == BigMulSmall(s.r, 2)
      up == \/ BigLess(s.w, twice)
            \/ twice = s.w /\ BigMod(s.q, 2) = 1
  IN  BigMul(IF up THEN BigAdd(s.q, <<1>>) ELSE s.q, s.w)

\* Number * Number and Number + Number on integer-valued doubles
NumberMul(x, y) ==
  IF x.nan \/ y.nan THEN NaN
  ELSE ZMake(x.neg # y.neg, DoubleRound(BigMul(x.mag, y.mag)))

NumberAdd(x, y) ==
  IF x.nan \/ y.nan THEN NaN
  ELSE LET e == ZAdd(x, y) IN ZMake(e.neg, DoubleRound(e.mag))

\* Number.prototype.toString of an integer-valued double below 10^21: the
\* shortest digit string s*10^t whose nearest double is the value, the
\* closest such one when several have that length
RECURSIVE ShortestDecimal(_, _)
ShortestDecimal(a, k) ==
  LET t == Len(a) - k
      lo == [i \in 1..Len(a) |-> IF i <= t THEN 0 ELSE a[i]]
      hi == BigAdd(lo, [i \in 1..(t + 1) |-> IF i = t + 1 THEN 1 ELSE 0])
      okLo == DoubleRound(lo) = a
      okHi == Len(hi) = Len(a) /\ DoubleRound(hi) = a
  IN  IF okLo /\ (~okHi \/ BigLeq(BigSub(a, lo), BigSub(hi, a))) THEN lo
      ELSE IF okHi THEN hi
      ELSE ShortestDecimal(a, k + 1)

NumberToString(v) ==
  IF v.nan THEN [minus |-> FALSE, digits |-> <<>>, nan |-> TRUE]
  ELSE [minus |-> v.neg,
        digits |-> IF v.mag = <<>> THEN <<0>>
                   ELSE BigDigits(ShortestDecimal(v.mag, 1)),
        nan |-> FALSE]

\* BigInt.prototype.toString: the exact decimal digits
BigIntToString(z) == [minus |-> z.neg, digits |-> BigDigits(z.mag), nan |-> FALSE]

(***************************************************************************)
(* Strings.  A JavaScript string is a sequence of UTF-16 code units; the   *)
(* text of a query parameter is well formed, so it is the UTF-16 encoding  *)
(* of a sequence of code points.  TextEncoder encodes a string as UTF-8.   *)
(***************************************************************************)
Utf16OfCodePoint(cp) ==
  IF cp < 65536 THEN <<cp>>
  ELSE <<55296 + ((cp - 65536) \div 1024), 56320 + ((cp - 65536) % 1024)>>

RECURSIVE Utf16Of(_)
Utf16Of(cps) ==
  IF cps = <<>> THEN <<>> ELSE Utf16OfCodePoint(Head(cps)) \o Utf16Of(Tail(cps))

IsHighSurrogate(u) == u >= 55296 /\ u <= 56319
IsLowSurrogate(u) == u >= 56320 /\ u <= 57343

\* the code points of a string; a lone surrogate reads as U+FFFD
RECURSIVE CodePointsOf(_)
CodePointsOf(str) ==
  IF str = <<>> THEN <<>>
  ELSE IF IsHighSurrogate(str[1]) /\ Len(str) >= 2 /\ IsLowSurrogate(str[2])
       THEN <<65536 + (str[1] - 55296) * 1024 + (str[2] - 56320)>>
            \o CodePointsOf(SubSeq(str, 3, Len(str)))
  ELSE IF IsHighSurrogate(str[1]) \/ IsLowSurrogate(str[1])
       THEN <<65533>> \o CodePointsOf(Tail(str))
  ELSE <<str[1]>> \o CodePointsOf(Tail(str))

Utf8OfCodePoint(cp) ==
  IF cp < 128 THEN <<cp>>
  ELSE IF cp < 2048 THEN <<192 + (cp \div 64), 128 + (cp % 64)>>
  ELSE IF cp < 65536
       THEN <<224 + (cp \div 4096), 128 + ((cp \div 64) % 64), 128 + (cp % 64)>>
  ELSE <<240 + (cp \div 262144), 128 + ((cp \div 4096) % 64),
         128 + ((cp \div 64) % 64), 128 + (cp % 64)>>

RECURSIVE Utf8OfCodePoints(_)
Utf8OfCodePoints(cps) ==
  IF cps = <<>> THEN <<>>
  ELSE Utf8OfCodePoint(Head(cps)) \o Utf8OfCodePoints(Tail(cps))

\* new TextEncoder().encode(str)
TextEncode(str) == Utf8OfCodePoints(CodePointsOf(str))

(***************************************************************************)
(* A parsed query number is what parseInt returns: NaN or an integer.      *)
(* The integers drawn here lie in the 32-bit range, so they are kept       *)
(* machine-sized and widened where the code computes with them.            *)
(***************************************************************************)
NumOf(n) == [nan |-> FALSE, inf |-> FALSE, int |-> n]
NumNaN == [nan |-> TRUE, inf |-> FALSE, int |-> 0]
\* Infinity, which parseInt gives for a run of digits beyond the range of
\* a double (some 310 digits); it is drawn for /prime only
NumInf == [nan |-> FALSE, inf |-> TRUE, int |-> 0]
ToZ(p) == IF p.nan THEN NaN ELSE ZOfInt(p.int)

Returned(v) == [thrown |-> FALSE, diverges |-> FALSE, value |-> v]
Thrown(e) == [thrown |-> TRUE, diverges |-> FALSE, value |-> e]
\* a call whose loop never ends
Diverges == [thrown |-> FALSE, diverges |-> TRUE, value |-> "none"]

(***************************************************************************)
(* jsFallback: the host-native kernels of the hybrid worker.               *)
(***************************************************************************)
js_add(a, b) == Returned(NumberAdd(ToZ(a), ToZ(b)))

\* js_factorial_loop with the loop test i < BigInt(n)
RECURSIVE js_factorial_loop_exclusive(_, _, _)
js_factorial_loop_exclusive(i, n, result) ==
  IF i < n
  THEN LET next == BigMul(result, BigOfNat(i))
       IN  Strict(next, js_factorial_loop_exclusive(i + 1, n, next))
  ELSE result

RECURSIVE js_factorial_loop(_, _, _)
js_factorial_loop(i, n, result) ==
  IF i <= n
  THEN LET next == BigMul(result, BigOfNat(i))
       IN  Strict(next, js_factorial_loop(i + 1, n, next))
  ELSE result

\* BigInt(n) throws a RangeError for NaN, at the first test of the loop
js_factorial(n) ==
  IF ~n.nan /\ n.int = 0 THEN Returned(ZOfBig(<<1>>))
  ELSE IF n.nan THEN Thrown("RangeError")
  ELSE Returned(ZOfBig(js_factorial_loop(2, n.int, <<1>>)))

\* i <= Math.sqrt(n): Math.sqrt is correctly rounded, and for integers i and
\* n of the 32-bit range the nearest double to sqrt(n) is below i exactly
\* when i*i > n
\* LeqSqrt with the loop test i < Math.sqrt(n)
LessSqrt(i, n) == i * i < n

LeqSqrt(i, n) == i * i <= n

RECURSIVE js_is_prime_loop(_, _)
js_is_prime_loop(i, n) ==
  IF LeqSqrt(i, n)
  THEN (IF n % i = 0 THEN FALSE ELSE js_is_prime_loop(i + 1, n))
  ELSE TRUE

\* every comparison with NaN is false: NaN < 2 fails and the loop is skipped.
\* For Infinity, Infinity < 2 fails, i <= Math.sqrt(Infinity) holds for every
\* i and Infinity % i is NaN, never 0: the loop has no exit
js_is_prime(n) ==
  IF n.nan THEN Returned(TRUE)
  ELSE IF n.inf THEN Diverges
  ELSE IF n.int < 2 THEN Returned(FALSE)
  ELSE Returned(js_is_prime_loop(2, n.int))

\* js_fibonacci_loop with the loop test i < n
RECURSIVE js_fibonacci_loop_exclusive(_, _, _, _)
js_fibonacci_loop_exclusive(i, n, a, b) ==
  IF i < n
  THEN LET temp == BigAdd(a, b)
       IN  Strict(temp, js_fibonacci_loop_exclusive(i + 1, n, b, temp))
  ELSE b

RECURSIVE js_fibonacci_loop(_, _, _, _)
js_fibonacci_loop(i, n, a, b) ==
  IF i <= n
  THEN LET temp == BigAdd(a, b)
       IN  Strict(temp, js_fibonacci_loop(i + 1, n, b, temp))
  ELSE b

js_fibonacci(n) ==
  IF ~n.nan /\ n.int = 0 THEN Returned(ZOfBig(<<>>))
  ELSE IF ~n.nan /\ n.int = 1 THEN Returned(ZOfBig(<<1>>))
  ELSE IF n.nan THEN Returned(ZOfBig(<<1>>))
  ELSE Returned(ZOfBig(js_fibonacci_loop(2, n.int, <<>>, <<1>>)))

\* str.split('').reverse().join(''): split('') cuts between code units
js_reverse_string(str) == Returned(SeqReverse(str))

js_simple_hash_step(hash, c) ==
  ToUint32(NumberAdd(NumberAdd(ShiftLeft(hash, 5), hash), ZOfInt(c)))

RECURSIVE js_simple_hash_loop(_, _, _)
js_simple_hash_loop(str, i, hash) ==
  IF i <= Len(str)
  THEN LET next == js_simple_hash_step(hash, str[i])
       IN  Strict(next, js_simple_hash_loop(str, i + 1, next))
  ELSE hash

js_simple_hash(str) == Returned(js_simple_hash_loop(str, 1, ZOfInt(5381)))

(***************************************************************************)
(* The kernels of the compiled module.  Its Rust source is not among the   *)
(* repository's files here; these follow the specification's section 4.4   *)
(* and the 32-bit integer signature of its exports.                        *)
(***************************************************************************)
wasm_add(a, b) == Returned(ToInt32(ZAdd(ToInt32(ToZ(a)), ToInt32(ToZ(b)))))

RECURSIVE wasm_product(_, _)
wasm_product(i, n) ==
  IF i > n THEN <<1>> ELSE BigMulSmall(wasm_product(i + 1, n), i)

wasm_factorial(n) == Returned(ZOfBig(wasm_product(2, IF n.nan THEN 0 ELSE n.int)))

wasm_is_prime(n) ==
  Returned(/\ ~n.nan
           /\ n.int >= 2
           /\ \A d \in 2..n.int : d * d <= n.int => n.int % d # 0)

RECURSIVE wasm_fib_pair(_)
wasm_fib_pair(n) ==
  IF n <= 0 THEN <<<<>>, <<1>>>>
  ELSE LET p == wasm_fib_pair(n - 1) IN Strict(p, <<p[2], BigAdd(p[1], p[2])>>)

wasm_fibonacci(n) == Returned(ZOfBig(wasm_fib_pair(IF n.nan THEN 0 ELSE n.int)[1]))

wasm_reverse_string(str) == Returned(Utf16Of(SeqReverse(CodePointsOf(str))))

RECURSIVE wasm_hash_bytes(_, _, _)
wasm_hash_bytes(bytes, i, hash) ==
  IF i <= Len(bytes)
  THEN LET next == BigMod2_32(BigAdd(BigMulSmall(hash, 33), BigOfNat(bytes[i])))
       IN  Strict(next, wasm_hash_bytes(bytes, i + 1, next))
  ELSE hash

wasm_simple_hash(str) ==
  Returned(ZOfBig(wasm_hash_bytes(TextEncode(str), 1, BigOfNat(5381))))

(***************************************************************************)
(* The function table of the hybrid worker: null before the first          *)
(* initWasm completes, then six entries, each the fallback's function or   *)
(* the module's export.                                                    *)
(***************************************************************************)
Ops == {"add", "factorial", "is_prime", "fibonacci", "reverse_string", "simple_hash"}
NullTable == [op \in Ops |-> "null"]
jsFallback == [op \in Ops |-> "js"]
WasmExports == [op \in Ops |-> "wasm"]

\* the table built from a module that exports only the operations in ex:
\* the other entries are undefined
ModuleTable(ex) == [op \in Ops |-> IF op \in ex THEN "wasm" ELSE "undefined"]

\* wasmFunctions.<op>(x, y): a TypeError when the table is null or the entry
\* is not a function (y is ignored by the one-argument kernels)
TableCall(wf, op, x, y) ==
  IF wf[op] = "js" THEN
    CASE op = "add" -> js_add(x, y)
      [] op = "factorial" -> js_factorial(x)
      [] op = "is_prime" -> js_is_prime(x)
      [] op = "fibonacci" -> js_fibonacci(x)
      [] op = "reverse_string" -> js_reverse_string(x)
      [] op = "simple_hash" -> js_simple_hash(x)
  ELSE IF wf[op] = "wasm" THEN
    CASE op = "add" -> wasm_add(x, y)
      [] op = "factorial" -> wasm_factorial(x)
      [] op = "is_prime" -> wasm_is_prime(x)
      [] op = "fibonacci" -> wasm_fibonacci(x)
      [] op = "reverse_string" -> wasm_reverse_string(x)
      [] op = "simple_hash" -> wasm_simple_hash(x)
  ELSE Thrown("TypeError")

(***************************************************************************)
(* Requests.  A query parameter is absent (or empty) or present; a         *)
(* numeric one is read with parseInt(get(name) || default).                *)
(***************************************************************************)
AbsentNum == [absent |-> TRUE, nan |-> FALSE, inf |-> FALSE, int |-> 0]
GivenNum(n) == [absent |-> FALSE, nan |-> FALSE, inf |-> FALSE, int |-> n]
GivenNaN == [absent |-> FALSE, nan |-> TRUE, inf |-> FALSE, int |-> 0]
GivenInf == [absent |-> FALSE, nan |-> FALSE, inf |-> TRUE, int |-> 0]
AbsentText == [absent |-> TRUE, str |-> <<>>]
GivenText(str) == [absent |-> (str = <<>>), str |-> str]

ParseIntOr(p, default) ==
  IF p.absent THEN NumOf(default) ELSE [nan |-> p.nan, inf |-> p.inf, int |-> p.int]
TextOr(p, default) == IF p.absent THEN default ELSE p.str

HelloWorld == <<72, 101, 108, 108, 111, 32, 87, 111, 114, 108, 100>>
Cloudflare == <<99, 108, 111, 117, 100, 102, 108, 97, 114, 101>>

EmptyQuery ==
  [a |-> AbsentNum, b |-> AbsentNum, n |-> AbsentNum,
   text |-> AbsentText, input |-> AbsentText]

(***************************************************************************)
(* Responses: the status, the operation named in the JSON body, its        *)
(* result, the implementation the body names, and whether the handler      *)
(* ended by an exception that nothing caught (the runtime then answers     *)
(* with its own error page).                                               *)
(***************************************************************************)
NoResponse == [status |-> 0, op |-> "none", result |-> "none", impl |-> "none", thrown |-> FALSE]
Ok(op, result, impl) ==
  [status |-> 200, op |-> op, result |-> result, impl |-> impl, thrown |-> FALSE]
Rejected(message) ==
  [status |-> 400, op |-> "error", result |-> message, impl |-> "none", thrown |-> FALSE]
NotFound ==
  [status |-> 404, op |-> "none", result |-> "Not Found", impl |-> "none", thrown |-> FALSE]
Uncaught(e) ==
  [status |-> 500, op |-> "uncaught", result |-> e, impl |-> "none", thrown |-> TRUE]
InternalFault(message) ==
  [status |-> 500, op |-> "error", result |-> message, impl |-> "none", thrown |-> FALSE]
\* the handler never reaches a return: no response is made
NeverReturns ==
  [status |-> 0, op |-> "never", result |-> "none", impl |-> "none", thrown |-> FALSE]

FactorialMax == 20
FibonacciMax == 40

ImplementationName(wa) == IF wa THEN "WebAssembly (Rust)" ELSE "JavaScript Fallback"

\* a handler's tail: the kernel's value shaped into the body, or the
\* exception leaving fetch
Answer(op, call, impl) ==
  IF call.diverges THEN NeverReturns
  ELSE IF call.thrown THEN Uncaught(call.value) ELSE Ok(op, call.value, impl)
AnswerText(op, call, impl) ==
  IF call.diverges THEN NeverReturns
  ELSE IF call.thrown THEN Uncaught(call.value)
  ELSE Ok(op, BigIntToString(call.value), impl)

\* n < 0 || n > max on a Number: false for NaN
OutOfRange(n, max) == ~n.nan /\ (n.inf \/ n.int < 0 \/ n.int > max)

\* the switch of the hybrid worker's fetch, run with the table and the flag
\* as they are when it runs
HybridRoute(path, q, wf, wa) ==
  LET impl == ImplementationName(wa) IN
  CASE path = "/" -> Ok("home", "text/html", "none")
    [] path = "/status" -> Ok("status", wa, impl)
    [] path = "/add" ->
         Answer("add", TableCall(wf, "add", ParseIntOr(q.a, 0), ParseIntOr(q.b, 0)), impl)
    [] path = "/factorial" ->
         LET n == ParseIntOr(q.n, 5) IN
         IF OutOfRange(n, FactorialMax) THEN Rejected("Number must be between 0 and 20")
         ELSE AnswerText("factorial", TableCall(wf, "factorial", n, n), impl)
    [] path = "/prime" ->
         LET num == ParseIntOr(q.n, 17) IN
         Answer("is_prime", TableCall(wf, "is_prime", num, num), impl)
    [] path = "/fibonacci" ->
         LET fibN == ParseIntOr(q.n, 10) IN
         IF OutOfRange(fibN, FibonacciMax) THEN Rejected("Number must be between 0 and 40")
         ELSE AnswerText("fibonacci", TableCall(wf, "fibonacci", fibN, fibN), impl)
    [] path = "/reverse" ->
         LET text == TextOr(q.text, HelloWorld) IN
         Answer("reverse_string", TableCall(wf, "reverse_string", text, text), impl)
    [] path = "/hash" ->
         LET input == TextOr(q.input, Cloudflare) IN
         Answer("simple_hash", TableCall(wf, "simple_hash", input, input), impl)
    [] OTHER -> NotFound

(***************************************************************************)
(* The no-WASM test worker: plain Number arithmetic in the handler.        *)
(***************************************************************************)
RECURSIVE plain_factorial_loop(_, _, _)
plain_factorial_loop(i, n, fact) ==
  IF i <= n
  THEN LET next == NumberMul(fact, ZOfInt(i))
       IN  Strict(next, plain_factorial_loop(i + 1, n, next))
  ELSE fact

\* i <= n is false for NaN: the loop is skipped
plain_factorial(n) == plain_factorial_loop(2, IF n.nan THEN 0 ELSE n.int, ZOfInt(1))

NoWasmNote == "JavaScript implementation (no WASM)"

NoWasmRoute(path, q) ==
  CASE path = "/" -> Ok("home", "text/html", "none")
    [] path = "/add" ->
         Ok("add", NumberAdd(ToZ(ParseIntOr(q.a, 0)), ToZ(ParseIntOr(q.b, 0))), NoWasmNote)
    [] path = "/factorial" ->
         LET n == ParseIntOr(q.n, 5) IN
         IF OutOfRange(n, FactorialMax) THEN Rejected("Number must be between 0 and 20")
         ELSE Ok("factorial", NumberToString(plain_factorial(n)), NoWasmNote)
    [] path = "/test" -> Ok("test", "Worker is working!", "none")
    [] OTHER -> NotFound

(***************************************************************************)
(* The pure-WASM worker: every operation is an export of the instance, and *)
(* the whole of fetch runs inside try/catch.                               *)
(***************************************************************************)
WasmFailed == "WASM execution failed"

PureAnswer(op, call) ==
  IF call.thrown THEN InternalFault(WasmFailed) ELSE Ok(op, call.value, "none")
PureAnswerText(op, call) ==
  IF call.thrown THEN InternalFault(WasmFailed)
  ELSE Ok(op, BigIntToString(call.value), "none")

PureRoute(path, q) ==
  CASE path = "/" -> Ok("home", "text/html", "none")
    [] path = "/status" -> Ok("status", TRUE, "Pure WebAssembly")
    [] path = "/add" ->
         PureAnswer("add", wasm_add(ParseIntOr(q.a, 0), ParseIntOr(q.b, 0)))
    [] path = "/factorial" ->
         LET n == ParseIntOr(q.n, 5) IN
         IF OutOfRange(n, FactorialMax) THEN Rejected("Number must be between 0 and 20")
         ELSE PureAnswerText("factorial", wasm_factorial(n))
    [] path = "/prime" -> PureAnswer("is_prime", wasm_is_prime(ParseIntOr(q.n, 17)))
    [] path = "/fibonacci" ->
         LET fibN == ParseIntOr(q.n, 10) IN
         IF OutOfRange(fibN, FibonacciMax) THEN Rejected("Number must be between 0 and 40")
         ELSE PureAnswerText("fibonacci", wasm_fibonacci(fibN))
    [] path = "/hash" ->
         PureAnswer("simple_hash", wasm_simple_hash(TextOr(q.input, Cloudflare)))
    [] OTHER -> NotFound

(***************************************************************************)
(* State.                                                                  *)
(*   variant        which worker script the process runs                   *)
(*   moduleExports  the operations the deployed module exports             *)
(*   wasmFunctions, wasmAvailable   the hybrid worker's module globals     *)
(*   wasmInstance   the pure worker's module global: 0 is null, r > 0 the  *)
(*                  instance made by request r's instantiate call          *)
(*   req            per request: where its fetch stands (pc), the request, *)
(*                  how its own load went, how its initWasm call ended,    *)
(*                  the instance fetch holds, and the response             *)
(*   loadAttempts, instantiations, descriptorWrites   history counters:    *)
(*                  loads begun, instantiate calls made, assignments to    *)
(*                  wasmFunctions                                          *)
(*   kPath, kQuery, kFallback, kModule, kNoWasm   the kernel harness: one  *)
(*                  request and its answer by the hybrid worker on the     *)
(*                  fallback table, on the module's table, and by the      *)
(*                  no-WASM worker                                         *)
(*   mWorker, memory, blocks, mreq   string marshalling: the worker, the   *)
(*                  module's linear memory, the blocks its allocator has   *)
(*                  handed out, and per request what its handler did       *)
(*   cPhase, cTriple, cWire, cDecoded   the response protocol codec: a     *)
(*                  triple, its encoding and the decoding of that          *)
(***************************************************************************)
VARIABLES variant, moduleExports, wasmFunctions, wasmAvailable, wasmInstance, req,
          loadAttempts, instantiations, descriptorWrites,
          kPath, kQuery, kFallback, kModule, kNoWasm,
          mWorker, memory, blocks, mreq,
          cPhase, cTriple, cWire, cDecoded

processVars == <<variant, moduleExports, wasmFunctions, wasmAvailable, wasmInstance, req,
                loadAttempts, instantiations, descriptorWrites>>
harnessVars == <<kPath, kQuery, kFallback, kModule, kNoWasm>>
marshalVars == <<mWorker, memory, blocks, mreq>>
codecVars == <<cPhase, cTriple, cWire, cDecoded>>
vars == <<variant, moduleExports, wasmFunctions, wasmAvailable, wasmInstance, req,
          loadAttempts, instantiations, descriptorWrites,
          kPath, kQuery, kFallback, kModule, kNoWasm,
          mWorker, memory, blocks, mreq,
          cPhase, cTriple, cWire, cDecoded>>

MaxRequests == 2
Requests == 1..MaxRequests

Paths == {"/", "/status", "/add", "/factorial", "/prime", "/fibonacci",
          "/reverse", "/hash", "/nope"}
OpPaths == {"/add", "/factorial", "/prime", "/fibonacci", "/reverse", "/hash"}

\* the requests drawn for the process: every path with its default query,
\* /factorial out of its domain and unparsable, and /prime with a run of
\* digits that parseInt reads as Infinity
RequestKinds ==
  {[path |-> p, q |-> EmptyQuery] : p \in Paths}
  \cup {[path |-> "/factorial", q |-> [EmptyQuery EXCEPT !.n = GivenNum(FactorialMax + 1)]],
        [path |-> "/factorial", q |-> [EmptyQuery EXCEPT !.n = GivenNaN]],
        [path |-> "/prime", q |-> [EmptyQuery EXCEPT !.n = GivenInf]],
        [path |-> "/hash", q |-> [EmptyQuery EXCEPT !.input = GivenText(<<233>>)]]}

\* the modules deployed: the repository's build with its six exports, and a
\* build without add
ExportSets == {Ops, Ops \ {"add"}}
ModuleTables == {ModuleTable(ex) : ex \in ExportSets}

\* the switches' answers to the requests drawn, tabulated once
HybridAnswers ==
  LET f == [k \in RequestKinds, wf \in {NullTable, jsFallback} \cup ModuleTables, wa \in BOOLEAN |->
              HybridRoute(k.path, k.q, wf, wa)]
  IN  Strict(f, f)

PureAnswers ==
  LET f == [k \in RequestKinds |-> PureRoute(k.path, k.q)] IN Strict(f, f)

(***************************************************************************)
(* String marshalling through the module's linear memory.  Memory is an    *)
(* array of cells from address 0; the allocator hands out blocks above the *)
(* null address.                                                           *)
(***************************************************************************)
MemCells == 4
Addresses == 0..(MemCells - 1)
EmptyMemory == [a \in Addresses |-> 0]

\* memoryArray.set(bytes, p)
MemWrite(mem, p, bytes) ==
  [a \in Addresses |-> IF a >= p /\ a < p + Len(bytes) THEN bytes[a - p + 1] ELSE mem[a]]

\* new Uint8Array(memory.buffer, p, n), and a module call's read of (p, n)
MemRead(mem, p, n) == [i \in 1..n |-> mem[p + i - 1]]

\* new TextDecoder().decode(bytes): UTF-8 to code points, U+FFFD for a
\* malformed byte
RECURSIVE Utf8Decode(_)
Utf8Decode(b) ==
  IF b = <<>> THEN <<>>
  ELSE LET h == Head(b)
           n == Len(b)
       IN  IF h < 128 THEN <<h>> \o Utf8Decode(Tail(b))
           ELSE IF h >= 192 /\ h < 224 /\ n >= 2
                THEN <<(h - 192) * 64 + (b[2] - 128)>> \o Utf8Decode(SubSeq(b, 3, n))
           ELSE IF h >= 224 /\ h < 240 /\ n >= 3
                THEN <<(h - 224) * 4096 + (b[2] - 128) * 64 + (b[3] - 128)>>
                     \o Utf8Decode(SubSeq(b, 4, n))
           ELSE IF h >= 240 /\ n >= 4
                THEN <<(h - 240) * 262144 + (b[2] - 128) * 4096 + (b[3] - 128) * 64
                       + (b[4] - 128)>> \o Utf8Decode(SubSeq(b, 5, n))
           ELSE <<65533>> \o Utf8Decode(Tail(b))

TextDecode(bytes) == Utf16Of(Utf8Decode(bytes))

\* the module's allocator: the lowest free block of n cells above address
\* 0, or 0 when none is left
BlockFree(bl, p, n) ==
  /\ p + n <= MemCells
  /\ \A b \in bl : p + n <= b.ptr \/ b.ptr + b.len <= p

module_alloc(bl, n) ==
  LET fits == {p \in 1..(MemCells - 1) : BlockFree(bl, p, n)}
  IN  IF fits = {} THEN 0 ELSE CHOOSE p \in fits : \A o \in fits : p <= o

module_dealloc(bl, p) == {b \in bl : b.ptr # p}

\* the module's reverse_string_ptr: the bytes it writes to its result block
module_reverse_bytes(bytes) == Utf8OfCodePoints(SeqReverse(Utf8Decode(bytes)))

\* what the module does when its allocator has nothing left: return a null
\* pointer or trap; and what get_string_length does on a null pointer:
\* trap (-1) or some length
ModuleFaults == {"null", "trap"}
NullLengths == {-1, 0, 1}

StaticName == "WebAssembly (Static Import)"
AllocFailed == "Failed to allocate WASM memory"

\* what a handler leaves behind: the response, the memory and the
\* allocator's blocks, the pointers it obtained and did not pass to dealloc
\* (held), whether the module call consuming its input was made (called)
\* and the bytes that call found at the pointer it was given (consumed),
\* whether the module returned it a null pointer (gotNull) and whether it
\* read at a null pointer or passed one to dealloc (nullUsed), and the
\* steps it took on linear memory, in order (log)
Outcome(resp, mem, bl, held, called, consumed, gotNull, nullUsed, log) ==
  [response |-> resp, memory |-> mem, blocks |-> bl, held |-> held, called |-> called,
   consumed |-> consumed, gotNull |-> gotNull, nullUsed |-> nullUsed, log |-> log]

\* one step of a handler on linear memory: what was done, at which pointer
Step(what, at) == [what |-> what, at |-> at]

\* ReverseSteps with both regions released before the result is decoded
ReverseSteps_release_first(ptr, reversedPtr) ==
  <<Step("alloc", ptr), Step("write", ptr), Step("reverse_string_ptr", ptr),
    Step("get_string_length", reversedPtr), Step("dealloc", ptr),
    Step("dealloc", reversedPtr), Step("decode", reversedPtr)>>

\* the steps of case '/reverse' in the order of its statements; a run that
\* returns or throws at a step has taken the steps up to it
ReverseSteps(ptr, reversedPtr) ==
  <<Step("alloc", ptr), Step("write", ptr), Step("reverse_string_ptr", ptr),
    Step("get_string_length", reversedPtr), Step("decode", reversedPtr),
    Step("dealloc", ptr), Step("dealloc", reversedPtr)>>

\* case '/reverse' of the static-import worker, with the catch of fetch
StaticReverse(textParam, mem, bl, fault, nullLen) ==
  LET text == TextOr(textParam, HelloWorld)
      textBytes == TextEncode(text)
      n == Len(textBytes)
      ptr == module_alloc(bl, n)
      bl1 == bl \cup {[ptr |-> ptr, len |-> n]}
      mem1 == MemWrite(mem, ptr, textBytes)
      consumed == MemRead(mem1, ptr, n)
      reversedPtr == module_alloc(bl1, n)
      mem2 == MemWrite(mem1, reversedPtr, module_reverse_bytes(consumed))
      steps == ReverseSteps(ptr, reversedPtr)
  IN  IF ptr = 0 THEN
        IF fault = "trap"
        THEN Outcome(InternalFault(WasmFailed), mem, bl, {}, FALSE, <<>>, FALSE, FALSE,
                     SubSeq(steps, 1, 1))
        ELSE Outcome(InternalFault(AllocFailed), mem, bl, {}, FALSE, <<>>, TRUE, FALSE,
                     SubSeq(steps, 1, 1))
      ELSE IF reversedPtr = 0 THEN
        IF fault = "trap"
        THEN Outcome(InternalFault(WasmFailed), mem1, bl1, {ptr}, TRUE, consumed, FALSE, FALSE,
                     SubSeq(steps, 1, 3))
        ELSE IF nullLen < 0
        THEN Outcome(InternalFault(WasmFailed), mem1, bl1, {ptr}, TRUE, consumed, TRUE, TRUE,
                     SubSeq(steps, 1, 4))
        ELSE Outcome(Ok("reverse_string", TextDecode(MemRead(mem1, 0, nullLen)), StaticName),
                     mem1, module_dealloc(module_dealloc(bl1, ptr), 0), {}, TRUE, consumed,
                     TRUE, TRUE, steps)
      ELSE Outcome(Ok("reverse_string", TextDecode(MemRead(mem2, reversedPtr, n)), StaticName),
                   mem2, module_dealloc(module_dealloc(bl1 \cup {[ptr |-> reversedPtr, len |-> n]},
                                                       ptr), reversedPtr),
                   {}, TRUE, consumed, FALSE, FALSE, steps)

\* PureHash with the module call made before the bytes are copied
PureHash_call_before_copy(inputParam, mem) ==
  LET textBytes == TextEncode(TextOr(inputParam, Cloudflare))
      consumed == MemRead(mem, 0, Len(textBytes))
  IN  Outcome(Ok("simple_hash", ZOfBig(wasm_hash_bytes(consumed, 1, BigOfNat(5381))), "none"),
              MemWrite(mem, 0, textBytes), {}, {}, TRUE, consumed, FALSE, FALSE,
              <<Step("simple_hash_bytes", 0), Step("write", 0)>>)

\* case '/hash' of the pure-WASM worker: the bytes are copied to offset 0
\* and simple_hash_bytes(0, length) is called
PureHash(inputParam, mem) ==
  LET textBytes == TextEncode(TextOr(inputParam, Cloudflare))
      mem1 == MemWrite(mem, 0, textBytes)
      consumed == MemRead(mem1, 0, Len(textBytes))
  IN  Outcome(Ok("simple_hash", ZOfBig(wasm_hash_bytes(consumed, 1, BigOfNat(5381))), "none"),
              mem1, {}, {}, TRUE, consumed, FALSE, FALSE,
              <<Step("write", 0), Step("simple_hash_bytes", 0)>>)

\* the texts marshalled: "a", U+00E9 and U+20AC, of one, two and three bytes
\* of UTF-8
MarshalTexts == {GivenText(<<97>>), GivenText(<<233>>), GivenText(<<8364>>)}

IdleMarshal ==
  [pc |-> "idle", text |-> AbsentText, response |-> NoResponse, fresh |-> NoResponse,
   held |-> {}, called |-> FALSE, consumed |-> <<>>, gotNull |-> FALSE,
   nullUsed |-> FALSE, overlapped |-> FALSE, log |-> <<>>]

MarshalIdle ==
  /\ mWorker = "none"
  /\ memory = EmptyMemory
  /\ blocks = {}
  /\ mreq = [r \in Requests |-> IdleMarshal]

(***************************************************************************)
(* The response protocol codec of the request-forwarding variant.  That    *)
(* variant's code is not among the repository's files here; the codec      *)
(* follows the specification's section 4.5: the wire form is               *)
(* status|content-type|body, decoded by splitting on '|', taking the first *)
(* two parts and rejoining the rest with '|'.  Strings are sequences of    *)
(* character codes.                                                        *)
(***************************************************************************)
Separator == 124

RECURSIVE StatusText(_)
StatusText(n) ==
  IF n < 10 THEN <<48 + n>> ELSE StatusText(n \div 10) \o <<48 + (n % 10)>>

codec_encode(t) ==
  StatusText(t.status) \o <<Separator>> \o t.contentType \o <<Separator>> \o t.body

\* wire.split('|')
RECURSIVE SplitFrom(_, _, _)
SplitFrom(str, i, part) ==
  IF i > Len(str) THEN <<part>>
  ELSE IF str[i] = Separator THEN <<part>> \o SplitFrom(str, i + 1, <<>>)
  ELSE SplitFrom(str, i + 1, Append(part, str[i]))

Split(str) == SplitFrom(str, 1, <<>>)

\* parts.join('|')
RECURSIVE Join(_)
Join(parts) ==
  IF parts = <<>> THEN <<>>
  ELSE IF Len(parts) = 1 THEN parts[1]
  ELSE parts[1] \o <<Separator>> \o Join(Tail(parts))

IsDigits(str) == str # <<>> /\ \A i \in 1..Len(str) : str[i] \in 48..57

RECURSIVE ParseDigits(_)
ParseDigits(str) ==
  IF str = <<>> THEN 0 ELSE 10 * ParseDigits(SubSeq(str, 1, Len(str) - 1)) + (str[Len(str)] - 48)

ProtocolViolation == [ok |-> FALSE, status |-> 0, contentType |-> <<>>, body |-> <<>>]
Decoded(status, contentType, body) ==
  [ok |-> TRUE, status |-> status, contentType |-> contentType, body |-> body]

\* codec_decode keeping only the third part as the body
codec_decode_third_part(wire) ==
  LET parts == Split(wire) IN
  IF Len(parts) < 3 \/ ~IsDigits(parts[1]) THEN ProtocolViolation
  ELSE IF ParseDigits(parts[1]) = 0 THEN ProtocolViolation
  ELSE Decoded(ParseDigits(parts[1]), parts[2], parts[3])

codec_decode(wire) ==
  LET parts == Split(wire) IN
  IF Len(parts) < 3 \/ ~IsDigits(parts[1]) THEN ProtocolViolation
  ELSE IF ParseDigits(parts[1]) = 0 THEN ProtocolViolation
  ELSE Decoded(ParseDigits(parts[1]), parts[2], Join(SubSeq(parts, 3, Len(parts))))

\* the triples drawn: fields of at most MaxFieldLen characters over a
\* letter and the separator
MaxFieldLen == 2
FieldChars == {98, Separator}
Fields(minLen) == UNION {[1..len -> FieldChars] : len \in minLen..MaxFieldLen}
Statuses == {200, 404, 500}
Triples == [status : Statuses, contentType : Fields(1), body : Fields(0)]
NoTriple == [status |-> 0, contentType |-> <<>>, body |-> <<>>]

CodecIdle ==
  /\ cPhase = "none"
  /\ cTriple = NoTriple
  /\ cWire = <<>>
  /\ cDecoded = ProtocolViolation

IdleRequest ==
  [pc |-> "idle", path |-> "none", q |-> EmptyQuery, load |-> "none",
   init |-> "none", instance |-> 0, response |-> NoResponse]

HarnessIdle ==
  /\ kPath = "none"
  /\ kQuery = EmptyQuery
  /\ kFallback = NoResponse
  /\ kModule = NoResponse
  /\ kNoWasm = NoResponse

Init ==
  /\ variant \in {"hybrid", "pure"}
  /\ moduleExports \in (IF variant = "hybrid" THEN ExportSets ELSE {Ops})
  /\ wasmFunctions = NullTable
  /\ wasmAvailable = FALSE
  /\ wasmInstance = 0
  /\ req = [r \in Requests |-> IdleRequest]
  /\ loadAttempts = 0
  /\ instantiations = 0
  /\ descriptorWrites = 0
  /\ HarnessIdle
  /\ MarshalIdle
  /\ CodecIdle

\* requests are numbered in the order they arrive
MayArrive(r) ==
  /\ req[r].pc = "idle"
  /\ \A s \in Requests : s < r => req[s].pc # "idle"

(***************************************************************************)
(* The hybrid worker.                                                      *)
(***************************************************************************)
\* the hybrid worker's isolate runs one callback at a time: while a handler
\* is inside a loop that never ends, nothing else of the process runs
HybridRuns == variant = "hybrid" /\ \A s \in Requests : req[s].pc # "looping"

\* Hybrid_fetch without the await: the switch is next, initWasm not run
Hybrid_fetch_without_await(r) ==
  /\ HybridRuns
  /\ MayArrive(r)
  /\ req' = [req EXCEPT ![r].pc = "initReturned"]
  /\ UNCHANGED <<variant, moduleExports, wasmFunctions, wasmAvailable, wasmInstance,
                 loadAttempts, instantiations, descriptorWrites>>
  /\ UNCHANGED <<harnessVars, marshalVars, codecVars>>

\* fetch is called and runs initWasm up to its first await: the cached path
\* returns at once, otherwise the dynamic imports start.  (The request's URL
\* is first read after the await, so its path and query are drawn there.)
Hybrid_fetch(r) ==
  /\ HybridRuns
  /\ MayArrive(r)
  /\ IF wasmAvailable
     THEN /\ req' = [req EXCEPT ![r] = [@ EXCEPT !.pc = "initReturned", !.load = "cached",
                                                !.init = "returned"]]
          /\ UNCHANGED loadAttempts
     ELSE /\ req' = [req EXCEPT ![r].pc = "importing"]
          /\ loadAttempts' = loadAttempts + 1
  /\ UNCHANGED <<variant, moduleExports, wasmFunctions, wasmAvailable, wasmInstance,
                 instantiations, descriptorWrites>>
  /\ UNCHANGED <<harnessVars, marshalVars, codecVars>>

\* both imports resolved: wasmInit.default(wasmModule.default) is called
Hybrid_initWasm_instantiate(r) ==
  /\ HybridRuns
  /\ req[r].pc = "importing"
  /\ req' = [req EXCEPT ![r].pc = "instantiating"]
  /\ instantiations' = instantiations + 1
  /\ UNCHANGED <<variant, moduleExports, wasmFunctions, wasmAvailable, wasmInstance,
                 loadAttempts, descriptorWrites>>
  /\ UNCHANGED <<harnessVars, marshalVars, codecVars>>

\* Hybrid_initWasm_loaded filling the entries the module does not export
\* from jsFallback
Hybrid_initWasm_loaded_fills_missing(r) ==
  /\ HybridRuns
  /\ req[r].pc = "instantiating"
  /\ wasmFunctions' = [op \in Ops |-> IF op \in moduleExports THEN "wasm" ELSE "js"]
  /\ wasmAvailable' = TRUE
  /\ descriptorWrites' = descriptorWrites + 1
  /\ req' = [req EXCEPT ![r] = [@ EXCEPT !.pc = "initReturned", !.load = "ok",
                                         !.init = "returned"]]
  /\ UNCHANGED <<variant, moduleExports, wasmInstance, loadAttempts, instantiations>>
  /\ UNCHANGED <<harnessVars, marshalVars, codecVars>>

\* the instantiation resolved: the table of exports is installed
Hybrid_initWasm_loaded(r) ==
  /\ HybridRuns
  /\ req[r].pc = "instantiating"
  /\ wasmFunctions' = ModuleTable(moduleExports)
  /\ wasmAvailable' = TRUE
  /\ descriptorWrites' = descriptorWrites + 1
  /\ req' = [req EXCEPT ![r] = [@ EXCEPT !.pc = "initReturned", !.load = "ok",
                                         !.init = "returned"]]
  /\ UNCHANGED <<variant, moduleExports, wasmInstance, loadAttempts, instantiations>>
  /\ UNCHANGED <<harnessVars, marshalVars, codecVars>>

\* Hybrid_initWasm_catch without a handler: the rejection leaves initWasm
Hybrid_initWasm_catch_rethrows(r) ==
  /\ HybridRuns
  /\ req[r].pc \in {"importing", "instantiating"}
  /\ req' = [req EXCEPT ![r] = [@ EXCEPT !.pc = "initThrew", !.load = "failed",
                                         !.init = "raised"]]
  /\ UNCHANGED <<variant, moduleExports, wasmFunctions, wasmAvailable, wasmInstance,
                 loadAttempts, instantiations, descriptorWrites>>
  /\ UNCHANGED <<harnessVars, marshalVars, codecVars>>

\* Hybrid_initWasm_catch without the assignment wasmFunctions = jsFallback
Hybrid_initWasm_catch_keeps_table(r) ==
  /\ HybridRuns
  /\ req[r].pc \in {"importing", "instantiating"}
  /\ wasmAvailable' = FALSE
  /\ req' = [req EXCEPT ![r] = [@ EXCEPT !.pc = "initReturned", !.load = "failed",
                                         !.init = "returned"]]
  /\ UNCHANGED <<variant, moduleExports, wasmFunctions, wasmInstance, loadAttempts, instantiations,
                 descriptorWrites>>
  /\ UNCHANGED <<harnessVars, marshalVars, codecVars>>

\* Hybrid_initWasm_catch without the assignment wasmAvailable = false
Hybrid_initWasm_catch_keeps_flag(r) ==
  /\ HybridRuns
  /\ req[r].pc \in {"importing", "instantiating"}
  /\ wasmFunctions' = jsFallback
  /\ descriptorWrites' = descriptorWrites + 1
  /\ req' = [req EXCEPT ![r] = [@ EXCEPT !.pc = "initReturned", !.load = "failed",
                                         !.init = "returned"]]
  /\ UNCHANGED <<variant, moduleExports, wasmAvailable, wasmInstance, loadAttempts,
                 instantiations>>
  /\ UNCHANGED <<harnessVars, marshalVars, codecVars>>

\* an import or the instantiation rejected: the catch block
Hybrid_initWasm_catch(r) ==
  /\ HybridRuns
  /\ req[r].pc \in {"importing", "instantiating"}
  /\ wasmFunctions' = jsFallback
  /\ wasmAvailable' = FALSE
  /\ descriptorWrites' = descriptorWrites + 1
  /\ req' = [req EXCEPT ![r] = [@ EXCEPT !.pc = "initReturned", !.load = "failed",
                                         !.init = "returned"]]
  /\ UNCHANGED <<variant, moduleExports, wasmInstance, loadAttempts, instantiations>>
  /\ UNCHANGED <<harnessVars, marshalVars, codecVars>>

\* a request's record once its handler ran the switch: answered, or inside
\* a loop that never ends with no response made
Resumed(request, k, answer) ==
  [request EXCEPT !.pc = IF answer.op = NeverReturns.op THEN "looping" ELSE "responded",
                  !.path = k.path, !.q = k.q,
                  !.response = IF answer.op = NeverReturns.op THEN NoResponse ELSE answer]

\* fetch resumes after await initWasm() and runs the switch to its return,
\* or into a kernel whose loop never ends
Hybrid_respond(r) ==
  /\ HybridRuns
  /\ req[r].pc = "initReturned"
  /\ \E k \in RequestKinds :
       req' = [req EXCEPT ![r] = Resumed(@, k, HybridAnswers[k, wasmFunctions, wasmAvailable])]
  /\ UNCHANGED <<variant, moduleExports, wasmFunctions, wasmAvailable, wasmInstance,
                 loadAttempts, instantiations, descriptorWrites>>
  /\ UNCHANGED <<harnessVars, marshalVars, codecVars>>

(***************************************************************************)
(* The pure-WASM worker (the static-import worker's initWasm is the same). *)
(***************************************************************************)
\* fetch is called and runs initWasm up to its await: a cached instance is
\* returned, otherwise WebAssembly.instantiate is called
Pure_fetch(r) ==
  /\ variant = "pure"
  /\ MayArrive(r)
  /\ IF wasmInstance # 0
     THEN /\ req' = [req EXCEPT ![r] = [@ EXCEPT !.pc = "initReturned", !.load = "cached",
                                                !.init = "returned",
                                                !.instance = wasmInstance]]
          /\ UNCHANGED <<loadAttempts, instantiations>>
     ELSE /\ req' = [req EXCEPT ![r].pc = "instantiating"]
          /\ loadAttempts' = loadAttempts + 1
          /\ instantiations' = instantiations + 1
  /\ UNCHANGED <<variant, moduleExports, wasmFunctions, wasmAvailable, wasmInstance, descriptorWrites>>
  /\ UNCHANGED <<harnessVars, marshalVars, codecVars>>

\* the instantiation resolved: the new instance is stored and returned
Pure_initWasm_resolved(r) ==
  /\ variant = "pure"
  /\ req[r].pc = "instantiating"
  /\ wasmInstance' = r
  /\ req' = [req EXCEPT ![r] = [@ EXCEPT !.pc = "initReturned", !.load = "ok",
                                         !.init = "returned", !.instance = r]]
  /\ UNCHANGED <<variant, moduleExports, wasmFunctions, wasmAvailable,
                 loadAttempts, instantiations, descriptorWrites>>
  /\ UNCHANGED <<harnessVars, marshalVars, codecVars>>

\* the instantiation rejected: initWasm has no handler, the rejection
\* reaches fetch
Pure_initWasm_rejected(r) ==
  /\ variant = "pure"
  /\ req[r].pc = "instantiating"
  /\ req' = [req EXCEPT ![r] = [@ EXCEPT !.pc = "initThrew", !.load = "failed",
                                         !.init = "raised"]]
  /\ UNCHANGED <<variant, moduleExports, wasmFunctions, wasmAvailable, wasmInstance,
                 loadAttempts, instantiations, descriptorWrites>>
  /\ UNCHANGED <<harnessVars, marshalVars, codecVars>>

\* fetch resumes after await initWasm() and runs the switch to its return
Pure_respond(r) ==
  /\ variant = "pure"
  /\ req[r].pc = "initReturned"
  /\ \E k \in RequestKinds :
       req' = [req EXCEPT ![r] = [@ EXCEPT !.pc = "responded", !.path = k.path, !.q = k.q,
                                          !.response = PureAnswers[k]]]
  /\ UNCHANGED <<variant, moduleExports, wasmFunctions, wasmAvailable, wasmInstance,
                 loadAttempts, instantiations, descriptorWrites>>
  /\ UNCHANGED <<harnessVars, marshalVars, codecVars>>

\* fetch's catch block, entered by the rejection of initWasm, whatever the
\* request asked for
Pure_catch(r) ==
  /\ variant = "pure"
  /\ req[r].pc = "initThrew"
  /\ \E k \in RequestKinds :
       req' = [req EXCEPT ![r] = [@ EXCEPT !.pc = "responded", !.path = k.path, !.q = k.q,
                                          !.response = InternalFault(WasmFailed)]]
  /\ UNCHANGED <<variant, moduleExports, wasmFunctions, wasmAvailable, wasmInstance,
                 loadAttempts, instantiations, descriptorWrites>>
  /\ UNCHANGED <<harnessVars, marshalVars, codecVars>>

Next ==
  \E r \in Requests :
    \/ Hybrid_fetch(r)
    \/ Hybrid_initWasm_instantiate(r)
    \/ Hybrid_initWasm_loaded(r)
    \/ Hybrid_initWasm_catch(r)
    \/ Hybrid_respond(r)
    \/ Pure_fetch(r)
    \/ Pure_initWasm_resolved(r)
    \/ Pure_initWasm_rejected(r)
    \/ Pure_respond(r)
    \/ Pure_catch(r)

Spec == Init /\ [][Next]_vars

\* a module load that was started completes, with success or failure
LoadCompletes(r) ==
  \/ Hybrid_initWasm_instantiate(r)
  \/ Hybrid_initWasm_loaded(r)
  \/ Hybrid_initWasm_catch(r)
  \/ Pure_initWasm_resolved(r)
  \/ Pure_initWasm_rejected(r)

\* a handler whose await has settled is resumed by the event loop
HandlerResumes(r) == Hybrid_respond(r) \/ Pure_respond(r) \/ Pure_catch(r)

\* the process with every started load completing and every settled await
\* resumed; requests need not arrive
SpecLive ==
  /\ Init
  /\ [][Next]_vars
  /\ \A r \in Requests : WF_vars(LoadCompletes(r)) /\ WF_vars(HandlerResumes(r))

(***************************************************************************)
(* The kernel harness: one request with its query drawn from bounded sets, *)
(* answered once by the hybrid worker holding the fallback table (the      *)
(* state a failed load leaves), once by the hybrid worker holding the      *)
(* module's exports, and once by the no-WASM worker.                       *)
(***************************************************************************)
ProbeSlack == 2
MaxPrimeInput == 130
MaxTextLen == 2

AddInts == {-2147483647 - 1, -1, 0, 1, 15, 27, 2147483647}
TextAlphabet == {72, 97, 233, 8364, 128512}

NumParams(ints) == {AbsentNum, GivenNaN} \cup {GivenNum(n) : n \in ints}
TextParams ==
  {AbsentText} \cup
  {GivenText(Utf16Of(cps)) : cps \in UNION {[1..len -> TextAlphabet] : len \in 0..MaxTextLen}}

QueriesFor(path) ==
  CASE path = "/add" ->
         {[EmptyQuery EXCEPT !.a = x, !.b = y] : x \in NumParams(AddInts), y \in NumParams(AddInts)}
    [] path = "/factorial" ->
         {[EmptyQuery EXCEPT !.n = x] : x \in NumParams((-ProbeSlack)..(FactorialMax + ProbeSlack))}
    [] path = "/prime" ->
         {[EmptyQuery EXCEPT !.n = x] : x \in NumParams((-ProbeSlack)..MaxPrimeInput)}
    [] path = "/fibonacci" ->
         {[EmptyQuery EXCEPT !.n = x] : x \in NumParams((-ProbeSlack)..(FibonacciMax + ProbeSlack))}
    [] path = "/reverse" -> {[EmptyQuery EXCEPT !.text = x] : x \in TextParams}
    [] path = "/hash" -> {[EmptyQuery EXCEPT !.input = x] : x \in TextParams}
    [] OTHER -> {EmptyQuery}

ProcessIdle ==
  /\ variant = "none"
  /\ moduleExports = Ops
  /\ wasmFunctions = NullTable
  /\ wasmAvailable = FALSE
  /\ wasmInstance = 0
  /\ req = [r \in Requests |-> IdleRequest]
  /\ loadAttempts = 0
  /\ instantiations = 0
  /\ descriptorWrites = 0

KernelInit ==
  /\ ProcessIdle
  /\ kPath \in Paths \cup {"/test"}
  /\ kQuery \in QueriesFor(kPath)
  /\ kFallback = NoResponse
  /\ kModule = NoResponse
  /\ kNoWasm = NoResponse
  /\ MarshalIdle
  /\ CodecIdle

CallFallback ==
  /\ kFallback.status = 0
  /\ kFallback' = HybridRoute(kPath, kQuery, jsFallback, FALSE)
  /\ UNCHANGED <<kPath, kQuery, kModule, kNoWasm>>
  /\ UNCHANGED <<processVars, marshalVars, codecVars>>

CallModule ==
  /\ kModule.status = 0
  /\ kModule' = HybridRoute(kPath, kQuery, WasmExports, TRUE)
  /\ UNCHANGED <<kPath, kQuery, kFallback, kNoWasm>>
  /\ UNCHANGED <<processVars, marshalVars, codecVars>>

CallNoWasm ==
  /\ kNoWasm.status = 0
  /\ kNoWasm' = NoWasmRoute(kPath, kQuery)
  /\ UNCHANGED <<kPath, kQuery, kFallback, kModule>>
  /\ UNCHANGED <<processVars, marshalVars, codecVars>>

KernelNext == CallFallback \/ CallModule \/ CallNoWasm

SpecKernels == KernelInit /\ [][KernelNext]_vars

(***************************************************************************)
(* The marshalling specification: requests to /reverse of the static-      *)
(* import worker, or to /hash of the pure-WASM worker, in one process.     *)
(* After `await initWasm()` a handler runs to its return without another   *)
(* await, so it is one step.                                               *)
(***************************************************************************)
MarshalInit ==
  /\ ProcessIdle
  /\ HarnessIdle
  /\ mWorker \in {"static", "pure"}
  /\ memory = EmptyMemory
  /\ blocks = {}
  /\ mreq = [r \in Requests |-> IdleMarshal]
  /\ CodecIdle

\* fetch is called and suspends at `await initWasm()`
Marshal_fetch(r) ==
  /\ mreq[r].pc = "idle"
  /\ \A s \in Requests : s < r => mreq[s].pc # "idle"
  /\ mreq' = [mreq EXCEPT ![r].pc = "awaiting"]
  /\ UNCHANGED <<mWorker, memory, blocks>>
  /\ UNCHANGED <<processVars, harnessVars, codecVars>>

\* the handler's record of one run
Handled(r, t, out, fresh) ==
  [pc |-> "responded", text |-> t, response |-> out.response, fresh |-> fresh,
   held |-> out.held, called |-> out.called, consumed |-> out.consumed,
   gotNull |-> out.gotNull, nullUsed |-> out.nullUsed, log |-> out.log,
   overlapped |-> \E s \in Requests : s # r /\ mreq[s].pc = "awaiting"]

\* fetch resumes in the static-import worker and serves /reverse; fresh is
\* the answer the same run gives on a module no earlier request has touched
Static_reverse(r) ==
  /\ mWorker = "static"
  /\ mreq[r].pc = "awaiting"
  /\ \E t \in MarshalTexts, fault \in ModuleFaults, nullLen \in NullLengths :
       LET out == StaticReverse(t, memory, blocks, fault, nullLen)
           fresh == StaticReverse(t, EmptyMemory, {}, fault, nullLen).response
       IN  /\ memory' = out.memory
           /\ blocks' = out.blocks
           /\ mreq' = [mreq EXCEPT ![r] = Handled(r, t, out, fresh)]
  /\ UNCHANGED mWorker
  /\ UNCHANGED <<processVars, harnessVars, codecVars>>

\* fetch resumes in the pure-WASM worker and serves /hash
Pure_hash(r) ==
  /\ mWorker = "pure"
  /\ mreq[r].pc = "awaiting"
  /\ \E t \in MarshalTexts :
       LET out == PureHash(t, memory)
           fresh == PureHash(t, EmptyMemory).response
       IN  /\ memory' = out.memory
           /\ blocks' = out.blocks
           /\ mreq' = [mreq EXCEPT ![r] = Handled(r, t, out, fresh)]
  /\ UNCHANGED mWorker
  /\ UNCHANGED <<processVars, harnessVars, codecVars>>

MarshalNext ==
  \E r \in Requests : Marshal_fetch(r) \/ Static_reverse(r) \/ Pure_hash(r)

SpecMarshal == MarshalInit /\ [][MarshalNext]_vars

(***************************************************************************)
(* The codec specification: a triple is encoded, then the wire form is     *)
(* decoded.                                                                *)
(***************************************************************************)
CodecInit ==
  /\ ProcessIdle
  /\ HarnessIdle
  /\ MarshalIdle
  /\ cPhase = "drawn"
  /\ cTriple \in Triples
  /\ cWire = <<>>
  /\ cDecoded = ProtocolViolation

Codec_encode ==
  /\ cPhase = "drawn"
  /\ cWire' = codec_encode(cTriple)
  /\ cPhase' = "encoded"
  /\ UNCHANGED <<cTriple, cDecoded>>
  /\ UNCHANGED <<processVars, harnessVars, marshalVars>>

Codec_decode ==
  /\ cPhase = "encoded"
  /\ cDecoded' = codec_decode(cWire)
  /\ cPhase' = "decoded"
  /\ UNCHANGED <<cTriple, cWire>>
  /\ UNCHANGED <<processVars, harnessVars, marshalVars>>

CodecNext == Codec_encode \/ Codec_decode

SpecCodec == CodecInit /\ [][CodecNext]_vars

(***************************************************************************)
(* Module lifecycle (Spec).                                                *)
(***************************************************************************)
InitWasmCompleted == \E r \in Requests : req[r].init # "none"

\* C1, as claimed: once some call to initWasm has completed, with success or
\* with failure, no later call starts another load of the module.
C1_NoLoadAfterFirstCompletion ==
  [][InitWasmCompleted => loadAttempts' = loadAttempts]_vars

\* C2, as claimed: under every interleaving of requests the module is
\* instantiated at most once in the process.
C2_InstantiatedAtMostOnce == instantiations <= 1

\* C3, as claimed: the hybrid worker's descriptor (wasmFunctions with
\* wasmAvailable) is assigned once and never again.
C3_DescriptorWrittenOnce == descriptorWrites <= 1

InDomain(path, q) ==
  CASE path = "/add" -> ~ParseIntOr(q.a, 0).nan /\ ~ParseIntOr(q.b, 0).nan
    [] path = "/factorial" ->
         ~ParseIntOr(q.n, 5).nan /\ ParseIntOr(q.n, 5).int \in 0..FactorialMax
    [] path = "/prime" -> ~ParseIntOr(q.n, 17).nan
    [] path = "/fibonacci" ->
         ~ParseIntOr(q.n, 10).nan /\ ParseIntOr(q.n, 10).int \in 0..FibonacciMax
    [] OTHER -> path \in OpPaths

NoLoadSucceeded == \A s \in Requests : req[s].load # "ok"

FallbackAnswer(path, q) == HybridRoute(path, q, jsFallback, FALSE)

AnsweredInDomainOp(r) ==
  /\ req[r].pc = "responded"
  /\ req[r].path \in OpPaths
  /\ InDomain(req[r].path, req[r].q)

Answered(resp) == resp.status # 0
DecimalText(digits) == [minus |-> FALSE, digits |-> digits, nan |-> FALSE]

RECURSIVE DecimalOfNat(_)
DecimalOfNat(n) == IF n < 10 THEN <<n>> ELSE DecimalOfNat(n \div 10) \o <<n % 10>>

\* C6, as claimed: for integer a and b the module's add and the fallback's
\* add return the same value.
C6_AddBackendsAgree ==
  (/\ kPath = "/add"
   /\ ~ParseIntOr(kQuery.a, 0).nan
   /\ ~ParseIntOr(kQuery.b, 0).nan
   /\ Answered(kFallback)
   /\ Answered(kModule)) =>
    kModule.result = kFallback.result

\* 0!, 1!, ..., 20! in decimal
FactorialTexts ==
  <<<<1>>,
     <<1>>,
     <<2>>,
     <<6>>,
     <<2, 4>>,
     <<1, 2, 0>>,
     <<7, 2, 0>>,
     <<5, 0, 4, 0>>,
     <<4, 0, 3, 2, 0>>,
     <<3, 6, 2, 8, 8, 0>>,
     <<3, 6, 2, 8, 8, 0, 0>>,
     <<3, 9, 9, 1, 6, 8, 0, 0>>,
     <<4, 7, 9, 0, 0, 1, 6, 0, 0>>,
     <<6, 2, 2, 7, 0, 2, 0, 8, 0, 0>>,
     <<8, 7, 1, 7, 8, 2, 9, 1, 2, 0, 0>>,
     <<1, 3, 0, 7, 6, 7, 4, 3, 6, 8, 0, 0, 0>>,
     <<2, 0, 9, 2, 2, 7, 8, 9, 8, 8, 8, 0, 0, 0>>,
     <<3, 5, 5, 6, 8, 7, 4, 2, 8, 0, 9, 6, 0, 0, 0>>,
     <<6, 4, 0, 2, 3, 7, 3, 7, 0, 5, 7, 2, 8, 0, 0, 0>>,
     <<1, 2, 1, 6, 4, 5, 1, 0, 0, 4, 0, 8, 8, 3, 2, 0, 0, 0>>,
     <<2, 4, 3, 2, 9, 0, 2, 0, 0, 8, 1, 7, 6, 6, 4, 0, 0, 0, 0>>>>

\* C7: for every n in 0..20 the /factorial answer of the hybrid worker on the
\* fallback table and of the no-WASM worker is 200 with exactly the decimal
\* digits of n!.
C7_FactorialExactDecimal ==
  \A n \in 0..FactorialMax :
    (kPath = "/factorial" /\ ParseIntOr(kQuery.n, 5) = NumOf(n)) =>
      /\ Answered(kFallback) =>
           /\ kFallback.status = 200
           /\ kFallback.result = DecimalText(FactorialTexts[n + 1])
      /\ Answered(kNoWasm) =>
           /\ kNoWasm.status = 200
           /\ kNoWasm.result = DecimalText(FactorialTexts[n + 1])

C7_Witness ==
  /\ kPath = "/factorial"
  /\ kQuery.n = GivenNum(FactorialMax)
  /\ kFallback.status = 200
  /\ kNoWasm.status = 200
  /\ Len(kNoWasm.result.digits) = 19

FloorSqrt(n) == CHOOSE s \in 0..n : s * s <= n /\ (s + 1) * (s + 1) > n

\* C8: is_prime answers false for every integer below 2, and for n >= 2 true
\* exactly when no d in 2..floor(sqrt(n)) divides n.
C8_IsPrimeTrialDivision ==
  (kPath = "/prime" /\ ~ParseIntOr(kQuery.n, 17).nan /\ Answered(kFallback)) =>
    LET n == ParseIntOr(kQuery.n, 17).int IN
    /\ kFallback.status = 200
    /\ n < 2 => kFallback.result = FALSE
    /\ n >= 2 => (kFallback.result = TRUE <=> \A d \in 2..FloorSqrt(n) : n % d # 0)

C8_Witness ==
  /\ kPath = "/prime"
  /\ kQuery.n = GivenNum(121)
  /\ Answered(kFallback)
  /\ kFallback.result = FALSE

\* F(0), ..., F(n) by F(0) = 0, F(1) = 1, F(k) = F(k-1) + F(k-2)
RECURSIVE CanonicalFibonacci(_)
CanonicalFibonacci(n) ==
  IF n = 0 THEN <<0>>
  ELSE IF n = 1 THEN <<0, 1>>
  ELSE LET f == CanonicalFibonacci(n - 1) IN Strict(f, Append(f, f[n] + f[n - 1]))

\* C9: for every n in 0..40 the /fibonacci answer on the fallback table is
\* 200 with the decimal digits of the n-th term of the canonical sequence.
C9_FibonacciCanonical ==
  \A n \in 0..FibonacciMax :
    (kPath = "/fibonacci" /\ ParseIntOr(kQuery.n, 10) = NumOf(n) /\ Answered(kFallback)) =>
      /\ kFallback.status = 200
      /\ kFallback.result = DecimalText(DecimalOfNat(CanonicalFibonacci(n)[n + 1]))

C9_Witness ==
  /\ kPath = "/fibonacci"
  /\ kQuery.n = GivenNum(FibonacciMax)
  /\ kFallback.status = 200
  /\ kFallback.result.digits = <<1, 0, 2, 3, 3, 4, 1, 5, 5>>

\* hash*33 + c modulo 2^32 over a byte sequence, from 5381
RECURSIVE Djb2(_, _)
Djb2(bytes, hash) ==
  IF bytes = <<>> THEN hash
  ELSE LET next == BigMod2_32(BigAdd(BigMulSmall(hash, 33), BigOfNat(Head(bytes))))
       IN  Strict(next, Djb2(Tail(bytes), next))

\* C10, as claimed: simple_hash(s) is the recurrence hash*33 + c mod 2^32 from
\* 5381 over the bytes of the UTF-8 encoding of s, an integer in [0, 2^32).
C10_HashOverUtf8Bytes ==
  (kPath = "/hash" /\ Answered(kFallback)) =>
    LET s == TextOr(kQuery.input, Cloudflare) IN
    /\ ~kFallback.result.neg
    /\ BigLess(kFallback.result.mag, Two32)
    /\ kFallback.result.mag = Djb2(TextEncode(s), BigOfNat(5381))

\* C12, as claimed: reverse_string returns the characters of its input in
\* reverse order, every character of more than one code unit kept intact.
C12_ReverseKeepsCodePoints ==
  (kPath = "/reverse" /\ Answered(kFallback)) =>
    LET text == TextOr(kQuery.text, HelloWorld) IN
    /\ kFallback.status = 200
    /\ kFallback.result = Utf16Of(SeqReverse(CodePointsOf(text)))

\* C13, as claimed: a /factorial request whose parsed n is not an integer in
\* 0..20 (negative, above 20, or not a number) is rejected with status 400
\* and the kernel is not invoked.
C13_FactorialOutsideDomainRejected ==
  (kPath = "/factorial" /\ Answered(kFallback)) =>
    LET n == ParseIntOr(kQuery.n, 5) IN
    (n.nan \/ n.int \notin 0..FactorialMax) =>
      /\ kFallback.status = 400
      /\ kFallback.op = "error"

\* C14, as claimed: a /fibonacci request whose parsed n is not an integer in
\* 0..40 is rejected with status 400 and no result is computed.
C14_FibonacciOutsideDomainRejected ==
  (kPath = "/fibonacci" /\ Answered(kFallback)) =>
    LET fibN == ParseIntOr(kQuery.n, 10) IN
    (fibN.nan \/ fibN.int \notin 0..FibonacciMax) =>
      /\ kFallback.status = 400
      /\ kFallback.op = "error"

(***************************************************************************)
(* Backend selection across requests (Spec).                               *)
(***************************************************************************)
\* C11, as claimed: two answered /hash requests with the same input carry
\* the same hash value, whatever requests came before and whichever backend
\* served them.
C11_HashDependsOnInputOnly ==
  \A r, s \in Requests :
    (/\ req[r].pc = "responded" /\ req[s].pc = "responded"
     /\ req[r].path = "/hash" /\ req[s].path = "/hash"
     /\ req[r].q.input = req[s].q.input
     /\ req[r].response.status = 200 /\ req[s].response.status = 200) =>
      req[r].response.result = req[s].response.result

\* the operation a path dispatches to
OpOfPath(path) ==
  CASE path = "/add" -> "add"
    [] path = "/factorial" -> "factorial"
    [] path = "/prime" -> "is_prime"
    [] path = "/fibonacci" -> "fibonacci"
    [] path = "/reverse" -> "reverse_string"
    [] path = "/hash" -> "simple_hash"
    [] OTHER -> "none"

\* C16, as claimed: a request for an operation the loaded module does not
\* export is served by the fallback or answered 500; no exception leaves
\* the request handler.
C16_MissingExportNeverEscapes ==
  \A r \in Requests :
    (/\ req[r].pc = "responded"
     /\ req[r].path \in OpPaths
     /\ OpOfPath(req[r].path) \notin moduleExports) =>
      ~req[r].response.thrown

WasmName == ImplementationName(TRUE)
FallbackName == ImplementationName(FALSE)

\* the backend whose table is installed, by the name the responses use
InstalledBackend(wf) ==
  IF wf \in ModuleTables THEN WasmName
  ELSE IF wf = jsFallback THEN FallbackName
  ELSE "none"

\* C20: in the hybrid worker, whenever a request is answered with a body
\* that carries an implementation indicator, the indicator names the backend
\* whose table is installed at that moment, /status reports wasm_available
\* accordingly, and an operation's result is the one that backend computes.
C20_IndicatorNamesInstalledBackend ==
  [][\A r \in Requests :
       (/\ variant = "hybrid"
        /\ req[r].pc # "responded"
        /\ req'[r].pc = "responded"
        /\ req'[r].response.impl # "none") =>
         LET resp == req'[r].response
             kind == [path |-> req'[r].path, q |-> req'[r].q]
             table == IF resp.impl = WasmName THEN ModuleTable(moduleExports)
                      ELSE jsFallback
         IN  /\ resp.impl = InstalledBackend(wasmFunctions')
             /\ resp.op = "status" => resp.result = (wasmFunctions' \in ModuleTables)
             /\ req'[r].path \in OpPaths =>
                  resp.result = HybridAnswers[kind, table, FALSE].result]_vars

C20_Witness ==
  /\ variant = "hybrid"
  /\ \E r, s \in Requests :
       /\ req[r].pc = "responded" /\ req[s].pc = "responded"
       /\ req[r].path = "/hash" /\ req[s].path = "/status"
       /\ req[r].response.impl = FallbackName
       /\ req[s].response.impl = WasmName

(***************************************************************************)
(* Marshalling (SpecMarshal).                                              *)
(***************************************************************************)
\* C15, as claimed: when a /reverse request of the static-import worker has
\* completed, every pointer it obtained from alloc or reverse_string_ptr has
\* been passed to dealloc, also when a later module call threw.
C15_EveryPointerDeallocated ==
  \A r \in Requests :
    (mWorker = "static" /\ mreq[r].pc = "responded") => mreq[r].held = {}

\* C17, as claimed: a /reverse request to which the module returned a null
\* pointer, from alloc or from reverse_string_ptr, is answered 500, and its
\* handler has neither read the buffer at that pointer nor passed it to
\* dealloc.
C17_NullPointerIsAFault ==
  \A r \in Requests :
    (mWorker = "static" /\ mreq[r].pc = "responded" /\ mreq[r].gotNull) =>
      /\ mreq[r].response.status = 500
      /\ ~mreq[r].nullUsed

\* C18, as claimed: whatever requests ended in a fault before it, a request
\* is answered exactly as the same request is answered by a process in
\* which no request has faulted.
C18_FaultsLeaveLaterAnswersAlone ==
  \A r \in Requests :
    mreq[r].pc = "responded" =>
      /\ mreq[r].response.status = mreq[r].fresh.status
      /\ mreq[r].response.status = mreq[r].fresh.status =>
           mreq[r].response.result = mreq[r].fresh.result

\* C19: in every interleaving of the requests in flight, the module call
\* that consumes a request's marshalled input (simple_hash_bytes at offset
\* 0, reverse_string_ptr at the allocated pointer) finds exactly the UTF-8
\* bytes of that request's own string at the pointer it is given.
C19_CallConsumesOwnBytes ==
  \A r \in Requests :
    (mreq[r].pc = "responded" /\ mreq[r].called) =>
      mreq[r].consumed =
        TextEncode(TextOr(mreq[r].text,
                          IF mWorker = "pure" THEN Cloudflare ELSE HelloWorld))

C19_Witness ==
  /\ mWorker = "pure"
  /\ \E r, s \in Requests :
       /\ mreq[r].pc = "responded" /\ mreq[s].pc = "responded"
       /\ mreq[r].overlapped
       /\ mreq[r].text = GivenText(<<233>>)
       /\ mreq[s].text = GivenText(<<97>>)
       /\ mreq[s].called
       /\ memory[0] = 97 /\ memory[1] = 169

(***************************************************************************)
(* Codec (SpecCodec).                                                      *)
(***************************************************************************)
\* C21, as claimed: decoding the encoding of a triple gives back the triple,
\* for every triple drawn.
C21_RoundTripEveryTriple ==
  cPhase = "decoded" =>
    cDecoded = Decoded(cTriple.status, cTriple.contentType, cTriple.body)

HasSeparator(str) == \E i \in 1..Len(str) : str[i] = Separator

\* C21, amended: when the content type contains no '|', decoding the
\* encoding of a triple gives back the triple, also when the body contains
\* '|'.
C21_RoundTripPlainContentType ==
  (cPhase = "decoded" /\ ~HasSeparator(cTriple.contentType)) =>
    cDecoded = Decoded(cTriple.status, cTriple.contentType, cTriple.body)

C21_Witness ==
  /\ cPhase = "decoded"
  /\ cTriple.contentType = <<98, 98>>
  /\ cTriple.body = <<Separator, Separator>>
  /\ cDecoded.ok
  /\ cDecoded.body = <<Separator, Separator>>

(***************************************************************************)
(* Dispatch and the installed table (Spec).                                *)
(***************************************************************************)
\* C22: whenever a handler is about to dispatch, the request's own initWasm
\* call has returned and the table it dispatches through is not null
\* (wasmFunctions in the hybrid worker, the instance initWasm returned in
\* the pure-WASM worker), whatever the other requests are doing.
C22_DispatchOnlyAfterOwnInit ==
  \A r \in Requests :
    req[r].pc = "initReturned" =>
      /\ req[r].init = "returned"
      /\ variant = "hybrid" => wasmFunctions # NullTable
      /\ variant = "pure" => (req[r].instance # 0 /\ wasmInstance # 0)

C22_Witness ==
  /\ variant = "hybrid"
  /\ \E r, s \in Requests :
       /\ req[r].pc = "initReturned"
       /\ req[r].load = "failed"
       /\ req[s].pc = "instantiating"
       /\ wasmFunctions = jsFallback

Mixed(wf) == (\E op \in Ops : wf[op] = "js") /\ (\E op \in Ops : wf[op] = "wasm")

\* C23: in the hybrid worker, once some initWasm call has completed,
\* wasmAvailable is false exactly when wasmFunctions is the jsFallback table
\* and true exactly when its six entries are those read from the module; no
\* table has both a fallback entry and a module entry.
C23_TableWhollyOneBackend ==
  (variant = "hybrid" /\ InitWasmCompleted) =>
    /\ ~wasmAvailable <=> wasmFunctions = jsFallback
    /\ wasmAvailable <=> wasmFunctions = ModuleTable(moduleExports)
    /\ ~Mixed(wasmFunctions)

C23_Witness ==
  /\ variant = "hybrid"
  /\ moduleExports # Ops
  /\ wasmAvailable
  /\ wasmFunctions = ModuleTable(moduleExports)
  /\ \E r, s \in Requests : req[r].load = "failed" /\ req[s].load = "ok"

\* C24, as claimed: once a request has been answered by the module, no
\* request of the same process is answered by the JavaScript fallback
\* afterwards.
C24_NoFallbackAfterModuleObserved ==
  [][(\E r \in Requests : /\ req[r].pc = "responded"
                          /\ req[r].response.impl = WasmName)
       => \A s \in Requests :
            (req[s].pc # "responded" /\ req'[s].pc = "responded")
              => req'[s].response.impl # FallbackName]_vars

(***************************************************************************)
(* The order of the steps of /reverse (SpecMarshal).                       *)
(***************************************************************************)
StepNames(log) == [i \in 1..Len(log) |-> log[i].what]
Releases(log, p) == {i \in 1..Len(log) : log[i].what = "dealloc" /\ log[i].at = p}

\* C25: a /reverse request of the static-import worker answered 200 took the
\* steps alloc, write, reverse_string_ptr, get_string_length, decode,
\* dealloc, dealloc in this order; the first three and the first dealloc are
\* at the input pointer, the others at the result pointer; the decode comes
\* before every dealloc and each of the two pointers is passed to dealloc
\* exactly once; when the module returned no null pointer both pointers are
\* non-null and neither block is allocated afterwards.
C25_ReverseStepsInOrder ==
  \A r \in Requests :
    (mWorker = "static" /\ mreq[r].pc = "responded" /\ mreq[r].response.status = 200) =>
      LET log == mreq[r].log
      IN  /\ StepNames(log) = <<"alloc", "write", "reverse_string_ptr", "get_string_length",
                                "decode", "dealloc", "dealloc">>
          /\ log[2].at = log[1].at /\ log[3].at = log[1].at /\ log[6].at = log[1].at
          /\ log[5].at = log[4].at /\ log[7].at = log[4].at
          /\ log[1].at # log[4].at
          /\ \A i \in 1..Len(log) : log[i].what = "dealloc" => i > 5
          /\ Cardinality(Releases(log, log[1].at)) = 1
          /\ Cardinality(Releases(log, log[4].at)) = 1
          /\ ~mreq[r].gotNull => /\ log[1].at # 0 /\ log[4].at # 0
                                 /\ mreq[r].held = {}

C25_Witness ==
  /\ mWorker = "static"
  /\ \E r \in Requests :
       /\ mreq[r].pc = "responded"
       /\ mreq[r].response.status = 200
       /\ ~mreq[r].gotNull
       /\ mreq[r].text = GivenText(<<97>>)
       /\ mreq[r].response.result = <<97>>
       /\ Len(mreq[r].log) = 7
       /\ blocks = {}

(***************************************************************************)
(* Termination of the handlers (SpecLive).                                 *)
(***************************************************************************)
\* C26, as claimed: every request that has arrived is eventually answered,
\* when every started load completes and every settled await is resumed.
C26_EveryRequestAnswered ==
  \A r \in Requests : (req[r].pc # "idle") ~> (req[r].pc = "responded")

====
